---- MODULE Spec2Model ----
(***************************************************************************)
(* QTextMarkdownImporter (src/gui/text/qtextmarkdownimporter.cpp): the     *)
(* builder that turns the MD4C event stream (enter/leave block, enter/     *)
(* leave span, text) into mutations of a QTextDocument through one         *)
(* QTextCursor.                                                            *)
(*                                                                         *)
(* mdi   the importer's member fields (the State Context)                  *)
(* sink  the document as the importer sees it through m_cursor / m_doc /   *)
(*       m_currentTable; sink.ops is the list of mutations issued by the   *)
(*       most recent call into the importer                                *)
(* open  the scopes the tokenizer has entered and not yet left             *)
(* kids  for each open scope, the list items entered in it (a list) or the *)
(*       paragraphs entered in it (a list item) so far                     *)
(* filled  the columns of the current table row whose data cell has had     *)
(*       text, markup or an image inserted                                 *)
(***************************************************************************)
EXTENDS Integers, Sequences, FiniteSets, TLC

VARIABLES mdi, sink, pc, open, last, status, result, imports, profile,
          paraCount, textCount, kids, filled

vars == <<mdi, sink, pc, open, last, status, result, imports, profile,
          paraCount, textCount, kids, filled>>

-----------------------------------------------------------------------------
(* Bounds of the explored inputs *)

MaxDepth == 4
MaxCols == 3
MaxRows == 2
MaxBlocks == 3
MaxParas == 3
MaxHtmlDepth == 2
MaxAccLen == 8
MaxSpanDepth == 2
MaxTexts == 2
MaxImports == 2
MaxScanCols == 6

(* Program constants *)

BlockQuoteIndent == 40
MaxHeadingLevel == 6

-----------------------------------------------------------------------------
(* Values *)

Last(s) == s[Len(s)]
Front(s) == SubSeq(s, 1, Len(s) - 1)

\* C++ integer division truncates toward zero
CDiv(a, b) == IF a >= 0 THEN a \div b ELSE -((-a) \div b)

\* QTextCharFormat: the set of properties that are set, and the value of
\* FontSizeAdjustment when "sizeAdjustment" is among them
EmptyCharFormat == [props |-> {}, sizeAdj |-> 0]

WithProp(fmt, p) == [fmt EXCEPT !.props = @ \cup {p}]

\* QTextBlockFormat, default constructed
EmptyBlockFormat ==
    [headingLevel |-> 0, quoteLevel |-> 0, leftMargin |-> 0, rightMargin |-> 0,
     topMargin |-> 0, bottomMargin |-> 0, indent |-> 0, codeLanguage |-> "unset",
     rule |-> FALSE, marker |-> "unset", alignment |-> "unset", inList |-> FALSE]

\* Text is a sequence of characters
Letters == {"a", "x"}
Newline == <<"nl">>
Space == <<"sp">>
ReplacementChar == <<"fffd">>

-----------------------------------------------------------------------------
(* Mutations of the document sink, as recorded in sink.ops *)

OpInsertBlock(bf, cf) == [op |-> "insertBlock", blockFormat |-> bf, charFormat |-> cf]
OpInsertList(indent, style, suffix) ==
    [op |-> "insertList", indent |-> indent, style |-> style, suffix |-> suffix]
OpListAdd == [op |-> "listAdd"]
OpSetBlockFormat(bf) == [op |-> "setBlockFormat", blockFormat |-> bf]
OpSetIndent(n) == [op |-> "setIndent", indent |-> n]
OpSetAlignment(a) == [op |-> "setAlignment", alignment |-> a]
OpSetCharFormat(cf) == [op |-> "setCharFormat", charFormat |-> cf]
OpInsertText(s) == [op |-> "insertText", text |-> s]
OpInsertHtml(s) == [op |-> "insertHtml", text |-> s]
OpInsertImage == [op |-> "insertImage"]
OpInsertTable(r, c) == [op |-> "insertTable", rows |-> r, cols |-> c]
OpAppendRows(n) == [op |-> "appendRows", n |-> n]
OpAppendColumns(n) == [op |-> "appendColumns", n |-> n]
OpMergeCells(row, col, numRows, numCols) ==
    [op |-> "mergeCells", row |-> row, col |-> col, numRows |-> numRows, numCols |-> numCols]
OpCellBold(row, col) == [op |-> "setCellFormat", row |-> row, col |-> col]
OpMoveToCell(row, col) == [op |-> "moveToCell", row |-> row, col |-> col]
OpMoveToEnd == [op |-> "moveToEnd"]
OpClear == [op |-> "clear"]

OpsNamed(ops, names) == SelectSeq(ops, LAMBDA o : o.op \in names)

\* the operations that put content (a block, a list, a table, text, markup,
\* an image) into the document
InsertionOps == {"insertBlock", "insertList", "insertTable", "insertText",
                 "insertHtml", "insertImage"}

Insertions(ops) == OpsNamed(ops, InsertionOps)

ContentOps == {"insertText", "insertHtml", "insertImage"}

-----------------------------------------------------------------------------
(* The handlers work on a record w = [m, d, ret]: the importer's fields, the *)
(* document sink and the value the handler returns to the tokenizer.         *)

Emit(w, o) == [w EXCEPT !.d.ops = Append(@, o)]

\* QTextTable::cellAt(row, col).isValid()
CellIsValid(d, row, col) == row >= 0 /\ row < d.rows /\ col >= 0 /\ col < d.cols

\* QTextCursor::insertBlock(blockFormat, charFormat): a new block; the cursor
\* moves into it and charFormat becomes the format of what is typed next
CursorInsertBlock(w, bf, cf) ==
    [Emit(w, OpInsertBlock(bf, cf)) EXCEPT !.d.blocks = @ + 1,
                                           !.d.charFormat = cf,
                                           !.d.inList = bf.inList]

\* QTextCursor::setCharFormat(charFormat)
CursorSetCharFormat(w, cf) ==
    [Emit(w, OpSetCharFormat(cf)) EXCEPT !.d.charFormat = cf]

\* QTextCursor::insertList(format): a new block that is the first item of a
\* new list
CursorInsertList(w, indent, style, suffix) ==
    [Emit(w, OpInsertList(indent, style, suffix)) EXCEPT !.d.blocks = @ + 1,
                                                         !.d.inList = TRUE]

SpanTop(m) ==
    IF m.m_spanFormatStack # <<>> THEN Last(m.m_spanFormatStack) ELSE EmptyCharFormat

\* variant: the left margin is not scaled by the depth
insertBlockQuoteFormat_FlatMargin(m, bf) ==
    IF m.m_blockQuoteDepth # 0
    THEN [bf EXCEPT !.quoteLevel = m.m_blockQuoteDepth,
                    !.leftMargin = BlockQuoteIndent,
                    !.rightMargin = BlockQuoteIndent]
    ELSE bf

insertBlockQuoteFormat(m, bf) ==
    IF m.m_blockQuoteDepth # 0
    THEN [bf EXCEPT !.quoteLevel = m.m_blockQuoteDepth,
                    !.leftMargin = BlockQuoteIndent * m.m_blockQuoteDepth,
                    !.rightMargin = BlockQuoteIndent]
    ELSE bf

insertBlockListFormat(m, bf) ==
    IF Len(m.m_listStack) # 0 THEN [bf EXCEPT !.indent = Len(m.m_listStack)] ELSE bf

insertBlockCodeFormat(m, bf) ==
    IF m.m_codeBlock
    THEN [bf EXCEPT !.codeLanguage = m.m_blockCodeLanguage]
    ELSE [bf EXCEPT !.topMargin = m.m_paragraphMargin,
                    !.bottomMargin = m.m_paragraphMargin]

\* variant: m_needsInsertBlock is left set
insertBlock_KeepsFlag(w) ==
    LET m == w.m
        charFormat == IF m.m_codeBlock THEN WithProp(SpanTop(m), "mono") ELSE SpanTop(m)
        blockFormat ==
            insertBlockCodeFormat(m,
                insertBlockListFormat(m,
                    insertBlockQuoteFormat(m, EmptyBlockFormat)))
    IN CursorInsertBlock(w, blockFormat, charFormat)

\* QTextMarkdownImporter::insertBlock()
insertBlock(w) ==
    LET m == w.m
        charFormat == IF m.m_codeBlock THEN WithProp(SpanTop(m), "mono") ELSE SpanTop(m)
        blockFormat ==
            insertBlockCodeFormat(m,
                insertBlockListFormat(m,
                    insertBlockQuoteFormat(m, EmptyBlockFormat)))
        w1 == CursorInsertBlock(w, blockFormat, charFormat)
    IN [w1 EXCEPT !.m.m_needsInsertBlock = FALSE]

-----------------------------------------------------------------------------
(* cbEnterBlock, one operator per case of the switch *)

NoDetail == [level |-> 0, lang |-> "", mark |-> "", isTask |-> FALSE,
             taskMark |-> " ", align |-> "default"]

EnterP(w) ==
    IF w.m.m_listStack = <<>>
    THEN [w EXCEPT !.m.m_needsInsertBlock = TRUE]
    ELSE IF w.m.m_emptyListItem
         THEN [w EXCEPT !.m.m_emptyListItem = FALSE]
         ELSE [w EXCEPT !.m.m_needsInsertBlock = TRUE]

EnterQuote(w) == [w EXCEPT !.m.m_blockQuoteDepth = @ + 1]

EnterCode(w, det) ==
    [w EXCEPT !.m.m_codeBlock = TRUE,
              !.m.m_blockCodeLanguage = det.lang,
              !.m.m_needsInsertBlock = TRUE]

HeadingCharFormat(level) ==
    [props |-> {"sizeAdjustment", "bold"}, sizeAdj |-> 4 - level]

\* EnterH without the assignment of line 183
EnterH_KeepsFlag(w, det) ==
    LET blockFmt == [EmptyBlockFormat EXCEPT !.headingLevel = det.level]
    IN CursorInsertBlock(w, blockFmt, HeadingCharFormat(det.level))

EnterH(w, det) ==
    LET blockFmt == [EmptyBlockFormat EXCEPT !.headingLevel = det.level]
        w1 == [w EXCEPT !.m.m_needsInsertBlock = FALSE]
    IN CursorInsertBlock(w1, blockFmt, HeadingCharFormat(det.level))

LiMarker(det) ==
    IF det.isTask
    THEN (IF det.taskMark = " " THEN "Unchecked" ELSE "Checked")
    ELSE "NoMarker"

\* EnterLI without the assignment of line 208
EnterLI_KeepsEmptyList(w, det) ==
    LET w1 == [w EXCEPT !.m.m_needsInsertBlock = FALSE]
        n == Len(w.m.m_listStack)
        bfmt == [EmptyBlockFormat EXCEPT !.marker = LiMarker(det), !.inList = TRUE]
        w2 == IF ~w1.m.m_emptyList
              THEN [Emit(CursorInsertBlock(w1, bfmt, EmptyCharFormat), OpListAdd)
                        EXCEPT !.m.m_listStack[n].count = @ + 1]
              ELSE w1
        w3 == Emit(w2, OpSetBlockFormat(bfmt))
    IN [w3 EXCEPT !.m.m_listItem = TRUE,
                  !.m.m_emptyListItem = TRUE]

EnterLI(w, det) ==
    LET w1 == [w EXCEPT !.m.m_needsInsertBlock = FALSE]
        n == Len(w.m.m_listStack)
        bfmt == [EmptyBlockFormat EXCEPT !.marker = LiMarker(det), !.inList = TRUE]
        w2 == IF ~w1.m.m_emptyList
              THEN [Emit(CursorInsertBlock(w1, bfmt, EmptyCharFormat), OpListAdd)
                        EXCEPT !.m.m_listStack[n].count = @ + 1]
              ELSE w1
        w3 == Emit(w2, OpSetBlockFormat(bfmt))
    IN [w3 EXCEPT !.m.m_emptyList = FALSE,
                  !.m.m_listItem = TRUE,
                  !.m.m_emptyListItem = TRUE]

UlStyle(mark) ==
    CASE mark = "*" -> "ListCircle"
      [] mark = "+" -> "ListSquare"
      [] OTHER -> "ListDisc"

\* variant: the indent is the depth before the push
PushList_IndentFromZero(w, style, suffix) ==
    LET indent == Len(w.m.m_listStack)
        w1 == CursorInsertList(w, indent, style, suffix)
    IN [w1 EXCEPT !.m.m_listStack = Append(@, [indent |-> indent, count |-> 1]),
                  !.m.m_emptyList = TRUE]

PushList(w, style, suffix) ==
    LET indent == Len(w.m.m_listStack) + 1
        w1 == CursorInsertList(w, indent, style, suffix)
    IN [w1 EXCEPT !.m.m_listStack = Append(@, [indent |-> indent, count |-> 1]),
                  !.m.m_emptyList = TRUE]

EnterUL(w, det) == PushList(w, UlStyle(det.mark), "")

EnterOL(w, det) == PushList(w, "ListDecimal", det.mark)

MdAlignment(a) ==
    CASE a = "left" -> "AlignLeft"
      [] a = "center" -> "AlignHCenter"
      [] a = "right" -> "AlignRight"
      [] OTHER -> "AlignLeft"

\* variant: the cell is looked up before m_tableCol is incremented
EnterTD_LookupBeforeIncrement(w, det) ==
    LET w1 == [w EXCEPT !.m.m_tableCol = @ + 1]
        row == w1.m.m_tableRowCount - 1
        col == w1.m.m_tableCol
    IN IF ~CellIsValid(w.d, row, w.m.m_tableCol)
       THEN [w1 EXCEPT !.ret = 1]
       ELSE [Emit(Emit(w1, OpMoveToCell(row, col)), OpSetAlignment(MdAlignment(det.align)))
                 EXCEPT !.d.inList = FALSE, !.d.charFormat = EmptyCharFormat]

EnterTD(w, det) ==
    LET w1 == [w EXCEPT !.m.m_tableCol = @ + 1]
        row == w1.m.m_tableRowCount - 1
        col == w1.m.m_tableCol
    IN IF ~CellIsValid(w1.d, row, col)
       THEN [w1 EXCEPT !.ret = 1]
       ELSE [Emit(Emit(w1, OpMoveToCell(row, col)), OpSetAlignment(MdAlignment(det.align)))
                 EXCEPT !.d.inList = FALSE, !.d.charFormat = EmptyCharFormat]

EnterTH(w) ==
    LET w1 == [w EXCEPT !.m.m_tableColumnCount = @ + 1, !.m.m_tableCol = @ + 1]
        w2 == IF w1.d.cols < w1.m.m_tableColumnCount
              THEN [Emit(w1, OpAppendColumns(1)) EXCEPT !.d.cols = @ + 1]
              ELSE w1
        row == w2.m.m_tableRowCount - 1
        col == w2.m.m_tableCol
    IN IF ~CellIsValid(w2.d, row, col)
       THEN [w2 EXCEPT !.ret = 1]
       ELSE Emit(w2, OpCellBold(row, col))

\* EnterTR with <= for the < of line 274
EnterTR_AppendsAtEqual(w) ==
    LET w1 == [w EXCEPT !.m.m_tableRowCount = @ + 1, !.m.m_nonEmptyTableCells = {}]
        w2 == IF w1.d.rows <= w1.m.m_tableRowCount
              THEN [Emit(w1, OpAppendRows(1)) EXCEPT !.d.rows = @ + 1]
              ELSE w1
    IN [w2 EXCEPT !.m.m_tableCol = -1]

EnterTR(w) ==
    LET w1 == [w EXCEPT !.m.m_tableRowCount = @ + 1, !.m.m_nonEmptyTableCells = {}]
        w2 == IF w1.d.rows < w1.m.m_tableRowCount
              THEN [Emit(w1, OpAppendRows(1)) EXCEPT !.d.rows = @ + 1]
              ELSE w1
    IN [w2 EXCEPT !.m.m_tableCol = -1]

EnterTable(w) ==
    [Emit(w, OpInsertTable(1, 1)) EXCEPT !.m.m_tableColumnCount = 0,
                                         !.m.m_tableRowCount = 0,
                                         !.m.m_currentTable = TRUE,
                                         !.d.rows = 1, !.d.cols = 1,
                                         !.d.inList = FALSE]

EnterHR(w) ==
    CursorInsertBlock(w, [EmptyBlockFormat EXCEPT !.rule = TRUE], EmptyCharFormat)

cbEnterBlock(w, blockType, det) ==
    LET w0 == [w EXCEPT !.m.m_blockType = blockType]
    IN CASE blockType = "P" -> EnterP(w0)
         [] blockType = "QUOTE" -> EnterQuote(w0)
         [] blockType = "CODE" -> EnterCode(w0, det)
         [] blockType = "H" -> EnterH(w0, det)
         [] blockType = "LI" -> EnterLI(w0, det)
         [] blockType = "UL" -> EnterUL(w0, det)
         [] blockType = "OL" -> EnterOL(w0, det)
         [] blockType = "TD" -> EnterTD(w0, det)
         [] blockType = "TH" -> EnterTH(w0)
         [] blockType = "TR" -> EnterTR(w0)
         [] blockType = "TABLE" -> EnterTable(w0)
         [] blockType = "HR" -> EnterHR(w0)
         [] OTHER -> w0

-----------------------------------------------------------------------------
(* cbLeaveBlock *)

\* The loop of case MD_BLOCK_TR: the mergeCells calls it issues, scanning the
\* columns from col down to 0
\* the loop without the reset of mergeEnd and mergeBegin at a populated
\* column (lines 316-317)
RECURSIVE MergeScan_KeepsMarkers(_, _, _, _, _)
MergeScan_KeepsMarkers(col, mergeEnd, mergeBegin, nonEmpty, row) ==
    IF col < 0 THEN <<>>
    ELSE IF col \in nonEmpty
         THEN (IF mergeEnd >= 0 /\ mergeBegin >= 0
               THEN <<OpMergeCells(row, mergeBegin - 1, 1, mergeEnd - mergeBegin + 2)>>
               ELSE <<>>)
              \o MergeScan_KeepsMarkers(col - 1, mergeEnd, mergeBegin, nonEmpty, row)
         ELSE IF mergeEnd < 0
              THEN MergeScan_KeepsMarkers(col - 1, col, mergeBegin, nonEmpty, row)
              ELSE MergeScan_KeepsMarkers(col - 1, mergeEnd, col, nonEmpty, row)

RECURSIVE MergeScan(_, _, _, _, _)
MergeScan(col, mergeEnd, mergeBegin, nonEmpty, row) ==
    IF col < 0 THEN <<>>
    ELSE IF col \in nonEmpty
         THEN (IF mergeEnd >= 0 /\ mergeBegin >= 0
               THEN <<OpMergeCells(row, mergeBegin - 1, 1, mergeEnd - mergeBegin + 2)>>
               ELSE <<>>)
              \o MergeScan(col - 1, -1, -1, nonEmpty, row)
         ELSE IF mergeEnd < 0
              THEN MergeScan(col - 1, col, mergeBegin, nonEmpty, row)
              ELSE MergeScan(col - 1, mergeEnd, col, nonEmpty, row)

LeaveList(w) == [w EXCEPT !.m.m_listStack = Front(@)]

LeaveTR(w) ==
    [w EXCEPT !.d.ops = @ \o MergeScan(w.m.m_tableCol, -1, -1,
                                       w.m.m_nonEmptyTableCells, w.d.rows - 1)]

LeaveQuote(w) ==
    [w EXCEPT !.m.m_blockQuoteDepth = @ - 1, !.m.m_needsInsertBlock = TRUE]

\* the table stays in the document; the importer no longer refers to it
LeaveTable(w) ==
    [Emit(w, OpMoveToEnd) EXCEPT !.m.m_currentTable = FALSE,
                                 !.d.rows = 0, !.d.cols = 0, !.d.inList = FALSE]

LeaveLI(w) == [w EXCEPT !.m.m_listItem = FALSE]

LeaveCode(w) ==
    [w EXCEPT !.m.m_codeBlock = FALSE,
              !.m.m_blockCodeLanguage = "",
              !.m.m_needsInsertBlock = TRUE]

LeaveH(w) == CursorSetCharFormat(w, EmptyCharFormat)

cbLeaveBlock(w, blockType) ==
    CASE blockType \in {"UL", "OL"} -> LeaveList(w)
      [] blockType = "TR" -> LeaveTR(w)
      [] blockType = "QUOTE" -> LeaveQuote(w)
      [] blockType = "TABLE" -> LeaveTable(w)
      [] blockType = "LI" -> LeaveLI(w)
      [] blockType = "CODE" -> LeaveCode(w)
      [] blockType = "H" -> LeaveH(w)
      [] OTHER -> w

-----------------------------------------------------------------------------
(* cbEnterSpan, cbLeaveSpan *)

\* the QTextCharFormat built by the switch of cbEnterSpan
SpanCharFormat(spanType) ==
    CASE spanType = "EM" -> WithProp(EmptyCharFormat, "italic")
      [] spanType = "STRONG" -> WithProp(EmptyCharFormat, "bold")
      [] spanType = "A" -> [EmptyCharFormat EXCEPT !.props = {"anchor", "foreground"}]
      [] spanType = "CODE" -> WithProp(EmptyCharFormat, "mono")
      [] spanType = "DEL" -> WithProp(EmptyCharFormat, "strikeout")
      [] OTHER -> EmptyCharFormat

EnterSpanImg(w) ==
    LET w1 == [w EXCEPT !.m.m_imageSpan = TRUE]
        w2 == IF w1.m.m_needsInsertBlock THEN insertBlock(w1) ELSE w1
    IN Emit(w2, OpInsertImage)

\* variant: the format of the enclosing span is merged into the new one
cbEnterSpan_Merged(w, spanType) ==
    LET charFmt == [SpanCharFormat(spanType) EXCEPT !.props = @ \cup SpanTop(w.m).props]
        w1 == IF spanType = "IMG" THEN EnterSpanImg(w) ELSE w
        w2 == [w1 EXCEPT !.m.m_spanFormatStack = Append(@, charFmt)]
    IN CursorSetCharFormat(w2, charFmt)

\* variant: a span kind without a case is not pushed
cbEnterSpan_SkipUnknown(w, spanType) ==
    LET charFmt == SpanCharFormat(spanType)
        w1 == IF spanType = "IMG" THEN EnterSpanImg(w) ELSE w
        w2 == [w1 EXCEPT !.m.m_spanFormatStack = Append(@, charFmt)]
    IN IF spanType \in {"EM", "STRONG", "A", "IMG", "CODE", "DEL"}
       THEN CursorSetCharFormat(w2, charFmt)
       ELSE w

cbEnterSpan(w, spanType) ==
    LET charFmt == SpanCharFormat(spanType)
        w1 == IF spanType = "IMG" THEN EnterSpanImg(w) ELSE w
        w2 == [w1 EXCEPT !.m.m_spanFormatStack = Append(@, charFmt)]
    IN CursorSetCharFormat(w2, charFmt)

\* cbLeaveSpan without the setCharFormat of lines 414-415
cbLeaveSpan_KeepsFormat(w, spanType) ==
    LET stack == w.m.m_spanFormatStack
        popped == IF stack # <<>> THEN Front(stack) ELSE stack
        w1 == [w EXCEPT !.m.m_spanFormatStack = popped]
    IN IF spanType = "IMG" THEN [w1 EXCEPT !.m.m_imageSpan = FALSE] ELSE w1

cbLeaveSpan(w, spanType) ==
    LET stack == w.m.m_spanFormatStack
        popped == IF stack # <<>> THEN Front(stack) ELSE stack
        charFmt == IF popped # <<>> THEN Last(popped) ELSE EmptyCharFormat
        w1 == CursorSetCharFormat([w EXCEPT !.m.m_spanFormatStack = popped], charFmt)
    IN IF spanType = "IMG" THEN [w1 EXCEPT !.m.m_imageSpan = FALSE] ELSE w1

-----------------------------------------------------------------------------
(* cbText *)

\* s[i], i counted from 0 as in QString
At(s, i) == s[i + 1]

\* whether openingBracket "<[a-zA-Z]" matches s at index i
OpeningAt(s, i) == i + 1 < Len(s) /\ At(s, i) = "<" /\ At(s, i + 1) \in Letters

\* whether closingBracket "(/>|</)" matches s at index i
ClosingAt(s, i) ==
    /\ i + 1 < Len(s)
    /\ \/ At(s, i) = "/" /\ At(s, i + 1) = ">"
       \/ At(s, i) = "<" /\ At(s, i + 1) = "/"

Min(S) == CHOOSE x \in S : \A y \in S : x <= y

\* QString::indexOf(re, from): the first index >= from where re matches, or -1
IndexOfOpening(s, from) ==
    LET hits == {i \in from .. Len(s) - 1 : OpeningAt(s, i)}
    IN IF hits = {} THEN -1 ELSE Min(hits)

IndexOfClosing(s, from) ==
    LET hits == {i \in from .. Len(s) - 1 : ClosingAt(s, i)}
    IN IF hits = {} THEN -1 ELSE Min(hits)

\* the two while loops of case MD_TEXT_HTML
RECURSIVE CountOpening(_, _)
CountOpening(s, startIdx) ==
    LET i == IndexOfOpening(s, startIdx)
    IN IF i >= 0 THEN 1 + CountOpening(s, i + 2) ELSE 0

RECURSIVE CountClosing(_, _)
CountClosing(s, startIdx) ==
    LET i == IndexOfClosing(s, startIdx)
    IN IF i >= 0 THEN 1 + CountClosing(s, i + 2) ELSE 0

\* the format the cursor is left with by insertHtml: that of the inserted
\* markup, not the one that was active before
MarkupCharFormat == [props |-> {"markup"}, sizeAdj |-> 0]

\* QTextCursor::insertHtml(html)
CursorInsertHtml(w, html) ==
    [Emit(w, OpInsertHtml(html)) EXCEPT !.d.charFormat = MarkupCharFormat]

\* the flush at the end of case MD_TEXT_HTML
FlushHtml(w) ==
    LET w1 == CursorInsertHtml(w, w.m.m_htmlAccumulator)
        w2 == CursorSetCharFormat(w1, SpanTop(w1.m))
    IN [w2 EXCEPT !.m.m_htmlAccumulator = <<>>]

\* variant: the flush also happens below depth zero
TextHtml_FlushAtOrBelowZero(w, s) ==
    LET depth == w.m.m_htmlTagDepth + CountOpening(s, 0) - CountClosing(s, 0)
        w1 == [w EXCEPT !.m.m_htmlTagDepth = depth,
                        !.m.m_htmlAccumulator = @ \o s]
    IN IF depth <= 0 THEN FlushHtml(w1) ELSE w1

TextHtml(w, s) ==
    LET depth == w.m.m_htmlTagDepth + CountOpening(s, 0) - CountClosing(s, 0)
        w1 == [w EXCEPT !.m.m_htmlTagDepth = depth,
                        !.m.m_htmlAccumulator = @ \o s]
    IN IF depth = 0 THEN FlushHtml(w1) ELSE w1

\* the first switch of cbText: the handler state and the string s left to insert
TextSwitch(w, textType, s) ==
    CASE textType = "NORMAL" ->
            IF w.m.m_htmlTagDepth # 0
            THEN [w |-> [w EXCEPT !.m.m_htmlAccumulator = @ \o s], s |-> <<>>]
            ELSE [w |-> w, s |-> s]
      [] textType = "NULLCHAR" -> [w |-> w, s |-> ReplacementChar]
      [] textType = "BR" -> [w |-> w, s |-> Newline]
      [] textType = "SOFTBR" -> [w |-> w, s |-> Space]
      [] textType = "CODE" -> [w |-> w, s |-> s]
      [] textType = "ENTITY" -> [w |-> CursorInsertHtml(w, s), s |-> <<>>]
      [] textType = "HTML" -> [w |-> TextHtml(w, s), s |-> <<>>]
      [] OTHER -> [w |-> w, s |-> s]

\* the second switch of cbText
TextRecordCell(w) ==
    IF w.m.m_blockType = "TD"
    THEN [w EXCEPT !.m.m_nonEmptyTableCells = @ \cup {w.m.m_tableCol}]
    ELSE w

TextInsert(w, s) ==
    LET w1 == IF s # <<>> THEN Emit(w, OpInsertText(s)) ELSE w
    IN IF w1.d.inList THEN Emit(w1, OpSetIndent(0)) ELSE w1

cbText(w, textType, text) ==
    IF w.m.m_imageSpan THEN w
    ELSE LET w1 == IF w.m.m_needsInsertBlock THEN insertBlock(w) ELSE w
             r == TextSwitch(w1, textType, text)
         IN TextInsert(TextRecordCell(r.w), r.s)

-----------------------------------------------------------------------------
(* The tokenizer (md_parse): the event streams it can deliver.  open holds  *)
(* the scopes entered and not yet left, innermost last.                     *)

BlockKinds == {"P", "QUOTE", "CODE", "H", "LI", "UL", "OL", "TD", "TH", "TR",
               "TABLE", "HR", "HTML", "THEAD"}
SpanKinds == {"EM", "STRONG", "A", "IMG", "CODE", "DEL", "U"}
TextKinds == {"NORMAL", "NULLCHAR", "BR", "SOFTBR", "CODE", "ENTITY", "HTML"}

\* kinds the importer has no case for
OtherBlockKinds == {"HTML", "THEAD"}
OtherSpanKinds == {"U"}

HtmlFragments ==
    { <<"<", "a", ">">>, <<"<", "/", "a", ">">>, <<"<", "a", "/", ">">>, <<"x">> }

\* the classes of documents explored
Profiles == {"paras", "spans", "html", "blocks", "table"}

ProfileBlocks(p) ==
    CASE p = "paras" -> {"P"}
      [] p = "spans" -> {"P", "H"}
      [] p = "html" -> {"P", "HTML"}
      [] p = "blocks" -> {"P", "QUOTE", "CODE", "UL", "OL", "LI", "H", "HR", "HTML"}
      [] p = "table" -> {"TABLE", "THEAD", "TR", "TH", "TD", "QUOTE", "CODE", "P"}

ProfileSpans(p) ==
    CASE p = "paras" -> {}
      [] p = "spans" -> SpanKinds
      [] p = "html" -> {"EM", "IMG"}
      [] p = "blocks" -> {"IMG"}
      [] p = "table" -> {"IMG"}

ProfileTexts(p) ==
    CASE p = "paras" -> TextKinds
      [] p = "spans" -> {"NORMAL"}
      [] p = "html" -> TextKinds
      [] p = "blocks" -> {"NORMAL", "CODE"}
      [] p = "table" -> {"NORMAL"}

\* the point sizes of the document's default font (-1: a font sized in pixels)
ProfilePointSizes(p) == IF p = "paras" THEN {-1, 9, 12} ELSE {12}

Block(kind) == <<"block", kind>>
Span(kind) == <<"span", kind>>

OpenBlocks(kind) == Len(SelectSeq(open, LAMBDA sc : sc = Block(kind)))
OpenSpans == Len(SelectSeq(open, LAMBDA sc : sc[1] = "span"))
OpenLists == OpenBlocks("UL") + OpenBlocks("OL")

Containers == {Block("QUOTE"), Block("LI")}
InlineHolders == {Block("P"), Block("H"), Block("TH"), Block("TD"), Block("LI")}

\* the blocks that may be entered inside the innermost open scope
Children(scopes) ==
    IF scopes = <<>> \/ Last(scopes) \in Containers
    THEN {"P", "H", "QUOTE", "CODE", "UL", "OL", "TABLE", "HR", "HTML"}
    ELSE CASE Last(scopes) \in {Block("UL"), Block("OL")} -> {"LI"}
           [] Last(scopes) = Block("TABLE") -> {"THEAD", "TR"}
           [] Last(scopes) = Block("THEAD") -> {"TR"}
           [] Last(scopes) = Block("TR") -> {"TH", "TD"}
           [] OTHER -> {}

SpansAllowed(scopes) ==
    scopes # <<>> /\ (Last(scopes) \in InlineHolders \/ Last(scopes)[1] = "span")

\* the kinds of text that may be delivered inside the innermost open scope
TextsAllowed(scopes) ==
    IF scopes = <<>> THEN {}
    ELSE CASE Last(scopes) = Block("CODE") -> {"CODE"}
           [] Last(scopes) = Block("HTML") -> {"HTML"}
           [] SpansAllowed(scopes) -> TextKinds
           [] OTHER -> {}

\* the detail structures of a block kind
Details(kind) ==
    CASE kind = "H" -> {[NoDetail EXCEPT !.level = l] : l \in 1 .. MaxHeadingLevel}
      [] kind = "CODE" -> {[NoDetail EXCEPT !.lang = l] : l \in {"", "cpp"}}
      [] kind = "UL" -> {[NoDetail EXCEPT !.mark = c] : c \in {"*", "+", "-"}}
      [] kind = "OL" -> {[NoDetail EXCEPT !.mark = c] : c \in {".", ")"}}
      [] kind = "LI" -> {NoDetail, [NoDetail EXCEPT !.isTask = TRUE],
                         [NoDetail EXCEPT !.isTask = TRUE, !.taskMark = "x"]}
      [] kind = "TD" -> {[NoDetail EXCEPT !.align = a] :
                             a \in {"default", "left", "center", "right"}}
      [] OTHER -> {NoDetail}

\* the text the tokenizer hands over with a text event
Payloads(textType) ==
    CASE textType = "HTML" -> HtmlFragments
      [] textType = "NULLCHAR" -> {<<"nul">>}
      [] textType = "BR" -> {Newline}
      [] textType = "SOFTBR" -> {Newline}
      [] textType = "ENTITY" -> {<<"&">>}
      [] OTHER -> {<<"x">>}

\* bounds on the document: the table's size, the paragraphs.  A table's
\* first row holds its header cells, the rows after it hold data cells; a
\* data row may hold more cells than the header (a malformed table).
WithinBounds(kind) ==
    CASE kind = "TR" -> mdi.m_tableRowCount < MaxRows
      [] kind = "TH" -> mdi.m_tableRowCount = 1 /\ mdi.m_tableColumnCount < MaxCols
      [] kind = "TD" -> mdi.m_tableRowCount > 1 /\ mdi.m_tableCol < MaxCols
      [] kind = "P" -> paraCount < MaxParas
      [] OTHER -> TRUE

NoEvent == [ev |-> "none", kind |-> "", det |-> NoDetail, text |-> <<>>]
Event(ev, kind, det, text) == [ev |-> ev, kind |-> kind, det |-> det, text |-> text]

-----------------------------------------------------------------------------
(* The state machine *)

InitialContext ==
    [m_listStack |-> <<>>, m_spanFormatStack |-> <<>>,
     m_htmlTagDepth |-> 0, m_htmlAccumulator |-> <<>>,
     m_blockQuoteDepth |-> 0,
     m_tableColumnCount |-> 0, m_tableRowCount |-> 0, m_tableCol |-> -1,
     m_nonEmptyTableCells |-> {}, m_currentTable |-> FALSE,
     m_paragraphMargin |-> 0, m_blockType |-> "DOC", m_blockCodeLanguage |-> "",
     m_emptyList |-> FALSE, m_listItem |-> FALSE, m_emptyListItem |-> FALSE,
     m_codeBlock |-> FALSE, m_imageSpan |-> FALSE, m_needsInsertBlock |-> FALSE,
     m_cursor |-> FALSE]

EmptySink ==
    [charFormat |-> EmptyCharFormat, rows |-> 0, cols |-> 0, blocks |-> 0,
     inList |-> FALSE, ops |-> <<>>]

Init ==
    /\ mdi = InitialContext
    /\ sink = EmptySink
    /\ pc = "idle"
    /\ open = <<>>
    /\ last = NoEvent
    /\ status = 0
    /\ result = "none"
    /\ imports = 0
    /\ profile \in Profiles
    /\ paraCount = 0
    /\ textCount = 0
    /\ kids = <<>>
    /\ filled = {}

ParagraphMargin(pointSize) == CDiv(pointSize * 2, 3)

\* import(), up to the call of md_parse
ImportEnter(pointSize) ==
    /\ mdi' = [mdi EXCEPT !.m_paragraphMargin = ParagraphMargin(pointSize),
                          !.m_cursor = TRUE]
    /\ sink' = [EmptySink EXCEPT !.ops = <<OpClear>>]
    /\ pc' = "parsing"
    /\ open' = <<>>
    /\ last' = NoEvent
    /\ status' = 0
    /\ result' = "none"
    /\ imports' = imports + 1
    /\ paraCount' = 0
    /\ textCount' = 0
    /\ kids' = <<>>
    /\ filled' = {}
    /\ UNCHANGED profile

ImportBegin == pc = "idle" /\ \E pointSize \in ProfilePointSizes(profile) : ImportEnter(pointSize)

\* a further import() on the same importer
ImportAgain ==
    /\ pc = "done"
    /\ imports < MaxImports
    /\ \E pointSize \in ProfilePointSizes(profile) : ImportEnter(pointSize)

\* the handler's view of the state when it is called
Entry == [m |-> mdi, d |-> [sink EXCEPT !.ops = <<>>], ret |-> 0]

Commit(w) == mdi' = w.m /\ sink' = w.d /\ status' = w.ret

Parsing == pc = "parsing" /\ status = 0

\* a list item counts for the list it is in, a paragraph for the list item
\* it is in
CountsForParent(kind) ==
    /\ open # <<>>
    /\ \/ kind = "LI" /\ Last(open) \in {Block("UL"), Block("OL")}
       \/ kind = "P" /\ Last(open) = Block("LI")

\* the handler call that ends in w has put content into the open data cell
Filled(w) ==
    IF OpenBlocks("TD") >= 1 /\ OpsNamed(w.d.ops, ContentOps) # <<>>
    THEN filled \cup {w.m.m_tableCol}
    ELSE filled

Entered(kind) ==
    Append(IF CountsForParent(kind)
           THEN [kids EXCEPT ![Len(kids)] = @ + 1]
           ELSE kids, 0)

EnterBlock ==
    /\ Parsing
    /\ Len(open) < MaxDepth
    /\ \E kind \in Children(open) \cap ProfileBlocks(profile) :
         \E det \in Details(kind) :
            LET w == cbEnterBlock(Entry, kind, det) IN
            /\ WithinBounds(kind)
            /\ w.d.blocks <= MaxBlocks
            /\ Commit(w)
            /\ open' = IF w.ret = 0 THEN Append(open, Block(kind)) ELSE open
            /\ last' = Event("enterBlock", kind, det, <<>>)
            /\ paraCount' = IF kind = "P" THEN paraCount + 1 ELSE paraCount
            /\ kids' = IF w.ret = 0 THEN Entered(kind) ELSE kids
            /\ filled' = IF kind \in {"TABLE", "TR"} THEN {} ELSE filled
    /\ textCount' = 0
    /\ UNCHANGED <<pc, result, imports, profile>>

LeaveBlock ==
    /\ Parsing
    /\ open # <<>>
    /\ Last(open)[1] = "block"
    /\ Last(open)[2] = "P" => textCount >= 1
    /\ Last(open)[2] \in {"UL", "OL"} => Last(kids) >= 1
    /\ Commit(cbLeaveBlock(Entry, Last(open)[2]))
    /\ open' = Front(open)
    /\ last' = Event("leaveBlock", Last(open)[2], NoDetail, <<>>)
    /\ textCount' = 0
    /\ kids' = Front(kids)
    /\ UNCHANGED <<pc, result, imports, profile, paraCount, filled>>

EnterSpan ==
    /\ Parsing
    /\ SpansAllowed(open)
    /\ Len(open) < MaxDepth
    /\ OpenSpans < MaxSpanDepth
    /\ \E kind \in ProfileSpans(profile) :
         LET w == cbEnterSpan(Entry, kind) IN
         /\ w.d.blocks <= MaxBlocks
         /\ Commit(w)
         /\ open' = Append(open, Span(kind))
         /\ last' = Event("enterSpan", kind, NoDetail, <<>>)
         /\ filled' = Filled(w)
    /\ kids' = Append(kids, 0)
    /\ UNCHANGED <<pc, result, imports, profile, paraCount, textCount>>

LeaveSpan ==
    /\ Parsing
    /\ open # <<>>
    /\ Last(open)[1] = "span"
    /\ Commit(cbLeaveSpan(Entry, Last(open)[2]))
    /\ open' = Front(open)
    /\ last' = Event("leaveSpan", Last(open)[2], NoDetail, <<>>)
    /\ kids' = Front(kids)
    /\ UNCHANGED <<pc, result, imports, profile, paraCount, textCount, filled>>

Text ==
    /\ Parsing
    /\ textCount < MaxTexts
    /\ \E textType \in TextsAllowed(open) \cap ProfileTexts(profile) :
         \E text \in Payloads(textType) :
            LET w == cbText(Entry, textType, text) IN
            /\ w.d.blocks <= MaxBlocks
            /\ w.m.m_htmlTagDepth \in -MaxHtmlDepth .. MaxHtmlDepth
            /\ Len(w.m.m_htmlAccumulator) <= MaxAccLen
            /\ Commit(w)
            /\ last' = Event("text", textType, NoDetail, text)
            /\ filled' = Filled(w)
    /\ textCount' = textCount + 1
    /\ UNCHANGED <<pc, open, result, imports, profile, paraCount, kids>>

\* import(), after md_parse has returned: the stream is complete, or a
\* handler has returned nonzero and the tokenizer has stopped
ImportLeave ==
    /\ pc = "parsing"
    /\ status # 0 \/ open = <<>>
    /\ mdi' = [mdi EXCEPT !.m_cursor = FALSE]
    /\ pc' = "done"
    /\ result' = "void"
    /\ UNCHANGED <<sink, open, last, status, imports, profile, paraCount, textCount,
                   kids, filled>>

Next ==
    \/ ImportBegin
    \/ EnterBlock
    \/ LeaveBlock
    \/ EnterSpan
    \/ LeaveSpan
    \/ Text
    \/ ImportLeave

Spec == Init /\ [][Next]_vars

\* the same importer used for more than one import
NextReuse == Next \/ ImportAgain

SpecReuse == Init /\ [][NextReuse]_vars

\* The importer at the end of a data row of a table of n columns, every cell
\* of the row entered and left, text received in any of them: wider rows than
\* MaxCols, for the loop of case MD_BLOCK_TR
InitRow ==
    \E n \in 1 .. MaxScanCols : \E nonEmpty \in SUBSET (0 .. n - 1) :
        /\ mdi = [InitialContext EXCEPT !.m_tableColumnCount = n,
                                        !.m_tableRowCount = 2,
                                        !.m_tableCol = n - 1,
                                        !.m_nonEmptyTableCells = nonEmpty,
                                        !.m_currentTable = TRUE,
                                        !.m_blockType = "TD",
                                        !.m_paragraphMargin = ParagraphMargin(12),
                                        !.m_cursor = TRUE]
        /\ sink = [EmptySink EXCEPT !.rows = 2, !.cols = n]
        /\ pc = "parsing"
        /\ open = <<Block("TABLE"), Block("TR")>>
        /\ kids = <<0, 0>>
        /\ filled = nonEmpty
        /\ last = Event("leaveBlock", "TD", NoDetail, <<>>)
        /\ status = 0
        /\ result = "none"
        /\ imports = 1
        /\ profile = "table"
        /\ paraCount = 0
        /\ textCount = 0

NextRow == LeaveBlock \/ ImportLeave

SpecRow == InitRow /\ [][NextRow]_vars

-----------------------------------------------------------------------------
(* Properties *)

MergeOps == OpsNamed(sink.ops, {"mergeCells"})
InsertBlockOps == OpsNamed(sink.ops, {"insertBlock"})
InsertHtmlOps == OpsNamed(sink.ops, {"insertHtml"})

After(ev, kind) == last.ev = ev /\ last.kind = kind

\* C1: when a data row of an n-column table is left, its populated cells
\* being exactly the columns 0..k-1 with 1 <= k < n and the row having n
\* cells, exactly one merge is issued on that row: at column k-1, spanning
\* n-k+1 columns.
C1_TrailingEmptyCellsMerged ==
    LET n == mdi.m_tableColumnCount
        k == Cardinality(mdi.m_nonEmptyTableCells)
    IN (/\ After("leaveBlock", "TR")
        /\ mdi.m_tableCol = n - 1
        /\ mdi.m_nonEmptyTableCells = 0 .. (k - 1)
        /\ 1 <= k /\ k < n)
       => MergeOps = <<OpMergeCells(sink.rows - 1, k - 1, 1, n - k + 1)>>

\* the empty list stack, zero depths, empty accumulator and span format
\* stack, and cleared flags a new importer has
ContextIsInitial ==
    /\ mdi.m_listStack = <<>>
    /\ mdi.m_blockQuoteDepth = 0
    /\ mdi.m_htmlTagDepth = 0
    /\ mdi.m_htmlAccumulator = <<>>
    /\ mdi.m_spanFormatStack = <<>>
    /\ ~mdi.m_needsInsertBlock
    /\ ~mdi.m_imageSpan
    /\ ~mdi.m_codeBlock

\* C2: a second import on the same importer starts from the initial State
\* Context, whatever the first import processed.
C2_SecondImportStartsFresh ==
    (imports >= 2 /\ pc = "parsing" /\ last = NoEvent) => ContextIsInitial

\* C3: a handler returns nonzero exactly when it is the enter of a table
\* header or data cell and the cell at (rowCount-1, currentColumn), with
\* currentColumn already incremented, does not exist in the table; every
\* other call returns 0.
C3_AbortExactlyOnMissingCell ==
    status # 0 <=>
        /\ last.ev = "enterBlock"
        /\ last.kind \in {"TH", "TD"}
        /\ ~(/\ 0 <= mdi.m_tableRowCount - 1 /\ mdi.m_tableRowCount - 1 < sink.rows
             /\ 0 <= mdi.m_tableCol /\ mdi.m_tableCol < sink.cols)

\* a data cell entered beyond the table's last column has stopped the parse
C3_Witness ==
    /\ status # 0
    /\ After("enterBlock", "TD")
    /\ mdi.m_tableCol = sink.cols
    /\ sink.cols >= 2

\* C4: when a handler has signalled abort for a malformed table cell
\* reference, the import call reports a failure to its caller.
C4_AbortReportedToCaller ==
    (pc = "done" /\ status # 0) => result = "unsuccessful"

\* a step that delivers a raw HTML fragment outside an image span
HtmlFragmentStep ==
    /\ textCount' = textCount + 1
    /\ last'.kind = "HTML"
    /\ ~mdi.m_imageSpan

\* what a raw HTML fragment does, the claim's sentence about a fragment that
\* leaves the depth nonzero being given by quiet
HtmlFragmentEffect(quiet) ==
    LET html == OpsNamed(sink'.ops, {"insertHtml"})
    IN IF mdi'.m_htmlTagDepth = 0
       THEN /\ html = <<OpInsertHtml(mdi.m_htmlAccumulator \o last'.text)>>
            /\ OpsNamed(sink'.ops, {"insertText"}) = <<>>
            /\ mdi'.m_htmlAccumulator = <<>>
            /\ sink'.charFormat =
                 (IF mdi'.m_spanFormatStack = <<>> THEN EmptyCharFormat
                  ELSE mdi'.m_spanFormatStack[Len(mdi'.m_spanFormatStack)])
       ELSE /\ quiet
            /\ mdi'.m_htmlAccumulator = mdi.m_htmlAccumulator \o last'.text

\* C5 (as stated): raw markup is inserted only at a fragment after which
\* htmlTagDepth is 0, as one insertion of everything accumulated since the
\* previous flush in arrival order, after which the accumulator is empty and
\* the active format is the span-stack top or empty; a fragment that leaves
\* the depth nonzero causes no sink insertion.
C5_FlushOnlyAtDepthZero_Original ==
    [][HtmlFragmentStep => HtmlFragmentEffect(Insertions(sink'.ops) = <<>>)]_vars

\* C5 (amended): as above, but a fragment that leaves the depth nonzero
\* inserts no text, markup or image; it may still perform the pending
\* deferred block insertion.
C5_FlushOnlyAtDepthZero ==
    [][HtmlFragmentStep => HtmlFragmentEffect(OpsNamed(sink'.ops, ContentOps) = <<>>)]_vars

\* a flush whose one insertion carries more than the fragment that caused it
C5_Witness ==
    /\ After("text", "HTML")
    /\ Len(InsertHtmlOps) = 1
    /\ Len(InsertHtmlOps[1].text) > Len(last.text)
    /\ mdi.m_htmlTagDepth = 0
    /\ mdi.m_spanFormatStack # <<>>

\* the format a span of the given kind stands for, on its own
C6_Snapshot(kind) ==
    CASE kind = "EM" -> [props |-> {"italic"}, sizeAdj |-> 0]
      [] kind = "STRONG" -> [props |-> {"bold"}, sizeAdj |-> 0]
      [] kind = "A" -> [props |-> {"anchor", "foreground"}, sizeAdj |-> 0]
      [] kind = "CODE" -> [props |-> {"mono"}, sizeAdj |-> 0]
      [] kind = "DEL" -> [props |-> {"strikeout"}, sizeAdj |-> 0]
      [] OTHER -> [props |-> {}, sizeAdj |-> 0]

\* C6: the span format stack is as deep as there are open spans; right
\* after EnterSpan(k) the active format is the snapshot of k alone; right
\* after the matching LeaveSpan it is the snapshot of the enclosing span, or
\* the empty format when no span remains open.
C6_SpansDoNotCompose ==
    /\ Len(mdi.m_spanFormatStack) = OpenSpans
    /\ last.ev = "enterSpan" => sink.charFormat = C6_Snapshot(last.kind)
    /\ last.ev = "leaveSpan" =>
          sink.charFormat = (IF OpenSpans > 0 THEN C6_Snapshot(Last(open)[2])
                             ELSE [props |-> {}, sizeAdj |-> 0])

\* Strong entered inside Emphasis
C6_Witness ==
    /\ After("enterSpan", "STRONG")
    /\ Len(open) >= 2
    /\ open[Len(open) - 1] = Span("EM")
    /\ sink.charFormat.props = {"bold"}

\* C7: in a stream of top-level paragraphs, each with at least one text
\* event, one block is inserted per paragraph, at its first text event and
\* not at its later ones, with top and bottom margin equal to the paragraph
\* margin and indent 0.
C7_OneBlockPerParagraph ==
    profile = "paras" =>
        /\ sink.blocks = paraCount - (IF open # <<>> /\ textCount = 0 THEN 1 ELSE 0)
        /\ pc = "done" => sink.blocks = paraCount
        /\ last.ev = "text" =>
              IF textCount = 1
              THEN /\ Len(InsertBlockOps) = 1
                   /\ InsertBlockOps[1].blockFormat.topMargin = mdi.m_paragraphMargin
                   /\ InsertBlockOps[1].blockFormat.bottomMargin = mdi.m_paragraphMargin
                   /\ InsertBlockOps[1].blockFormat.indent = 0
              ELSE InsertBlockOps = <<>>

\* three paragraphs imported, the last text event not the paragraph's first
C7_Witness ==
    /\ profile = "paras"
    /\ pc = "done"
    /\ paraCount = 3
    /\ sink.blocks = 3
    /\ mdi.m_paragraphMargin = 6

\* C8: the list stack is as deep as there are open lists, and the list at
\* position i of the stack, the outermost being 1, was created with indent i.
C8_ListIndentIsNestingDepth ==
    /\ Len(mdi.m_listStack) = OpenLists
    /\ \A i \in 1 .. Len(mdi.m_listStack) : mdi.m_listStack[i].indent = i
    /\ (last.ev = "enterBlock" /\ last.kind \in {"UL", "OL"}) =>
          /\ Len(OpsNamed(sink.ops, {"insertList"})) = 1
          /\ OpsNamed(sink.ops, {"insertList"})[1].indent = OpenLists

\* a list opened inside an item of another list
C8_Witness ==
    /\ After("enterBlock", "OL")
    /\ OpenLists = 2
    /\ mdi.m_listStack[2].indent = 2

\* C9: blockQuoteDepth is never negative and is the number of open quotes,
\* and a block created by deferred insertion while d >= 1 quotes are open
\* has left margin d times the quote indent unit, 40.
C9_QuoteDepthAndLeftMargin ==
    /\ mdi.m_blockQuoteDepth >= 0
    /\ mdi.m_blockQuoteDepth = OpenBlocks("QUOTE")
    /\ (last.ev \in {"text", "enterSpan"} /\ OpenBlocks("QUOTE") >= 1) =>
          \A i \in 1 .. Len(InsertBlockOps) :
              InsertBlockOps[i].blockFormat.leftMargin = 40 * OpenBlocks("QUOTE")

\* a paragraph's block created inside a quote inside a quote
C9_Witness ==
    /\ After("text", "NORMAL")
    /\ OpenBlocks("QUOTE") = 2
    /\ Len(InsertBlockOps) = 1
    /\ InsertBlockOps[1].blockFormat.leftMargin = 80

\* an enter or leave of a block or span kind the importer has no case for
OtherKindStep(ev) ==
    /\ open' # open
    /\ last'.ev = ev
    /\ last'.kind \in (IF ev \in {"enterBlock", "leaveBlock"} THEN OtherBlockKinds
                       ELSE OtherSpanKinds)

NothingInserted == Insertions(sink'.ops) = <<>>

\* C10 (as stated): an enter or leave of an unknown block or span kind
\* returns 0, changes no field of the State Context and issues no mutation
\* on the sink, its active character format included.
C10_UnknownKindsIgnored_Original ==
    [][\A ev \in {"enterBlock", "leaveBlock", "enterSpan", "leaveSpan"} :
          OtherKindStep(ev) =>
              /\ status' = 0
              /\ mdi' = mdi
              /\ sink'.ops = <<>>
              /\ sink'.charFormat = sink.charFormat]_vars

\* C10 (amended): they return 0 and insert nothing.  LeaveBlock changes
\* nothing; EnterBlock changes only the current block kind, to the kind
\* entered; EnterSpan pushes an empty format on the span format stack and
\* makes the empty format active; LeaveSpan pops the stack and makes its new
\* top, or the empty format, active.
C10_UnknownKindsIgnored ==
    [][/\ OtherKindStep("leaveBlock") =>
            status' = 0 /\ mdi' = mdi /\ sink'.ops = <<>>
                        /\ sink'.charFormat = sink.charFormat
       /\ OtherKindStep("enterBlock") =>
            /\ status' = 0
            /\ mdi' = [mdi EXCEPT !.m_blockType = last'.kind]
            /\ sink'.ops = <<>>
            /\ sink'.charFormat = sink.charFormat
       /\ OtherKindStep("enterSpan") =>
            /\ status' = 0
            /\ mdi' = [mdi EXCEPT !.m_spanFormatStack = Append(@, EmptyCharFormat)]
            /\ sink'.ops = <<OpSetCharFormat(EmptyCharFormat)>>
            /\ sink'.charFormat = EmptyCharFormat
       /\ OtherKindStep("leaveSpan") =>
            /\ status' = 0
            /\ mdi' = [mdi EXCEPT !.m_spanFormatStack = Front(@)]
            /\ NothingInserted
            /\ sink'.charFormat = (IF Len(mdi.m_spanFormatStack) > 1
                                   THEN mdi.m_spanFormatStack[Len(mdi.m_spanFormatStack) - 1]
                                   ELSE EmptyCharFormat)]_vars

\* an unknown span kind entered inside Emphasis: the stack has grown and
\* the italic format is no longer active
C10_Witness ==
    /\ After("enterSpan", "U")
    /\ Len(mdi.m_spanFormatStack) = 2
    /\ mdi.m_spanFormatStack[1].props = {"italic"}
    /\ sink.charFormat.props = {}

\* the step is an enter of a block of this kind
EnterBlockStep(kind) ==
    /\ open' # open
    /\ last'.ev = "enterBlock"
    /\ last'.kind = kind

TextStep == textCount' = textCount + 1

\* C11: the enter of a heading of level L, in any state, a pending deferred
\* insertion included, inserts exactly one block, with heading level L and
\* the bold character format with size adjustment 4 - L, and clears
\* m_needsInsertBlock; the text events of the heading insert no further block.
C11_HeadingInsertedImmediately ==
    [][/\ EnterBlockStep("H") =>
            /\ last'.det.level \in 1 .. MaxHeadingLevel
            /\ sink'.ops = <<OpInsertBlock(
                    [EmptyBlockFormat EXCEPT !.headingLevel = last'.det.level],
                    [props |-> {"bold", "sizeAdjustment"},
                     sizeAdj |-> 4 - last'.det.level])>>
            /\ sink'.blocks = sink.blocks + 1
            /\ ~mdi'.m_needsInsertBlock
       /\ (TextStep /\ OpenBlocks("H") >= 1) =>
            /\ OpsNamed(sink'.ops, {"insertBlock"}) = <<>>
            /\ sink'.blocks = sink.blocks
      ]_vars

\* the text of a level 6 heading: the heading's block is the only one, the
\* text goes into it in the heading's character format
C11_Witness ==
    /\ After("text", "NORMAL")
    /\ open = <<Block("H")>>
    /\ sink.charFormat = [props |-> {"bold", "sizeAdjustment"}, sizeAdj |-> -2]
    /\ sink.blocks = 1
    /\ profile = "blocks"
    /\ paraCount = 0
    /\ sink.ops = <<OpInsertText(<<"x">>)>>

\* the positions in open of the open lists, outermost first
ListScopes == SelectSeq([i \in 1 .. Len(open) |-> i],
                        LAMBDA i : open[i] \in {Block("UL"), Block("OL")})

\* C12: a list that has received k >= 1 list item enters holds exactly k
\* items: its first item reuses the block created by the list insertion (no
\* block is inserted), each later item inserts exactly one block and adds it
\* to that same list, also when nested lists were opened and closed between
\* the items.
C12_ListHoldsItsItems ==
    /\ Len(mdi.m_listStack) = Len(ListScopes)
    /\ \A j \in 1 .. Len(ListScopes) :
          mdi.m_listStack[j].count = IF kids[ListScopes[j]] = 0 THEN 1
                                    ELSE kids[ListScopes[j]]
    /\ After("enterBlock", "LI") =>
          IF kids[Len(open) - 1] = 1
          THEN OpsNamed(sink.ops, {"insertBlock", "listAdd"}) = <<>>
          ELSE /\ Len(InsertBlockOps) = 1
               /\ InsertBlockOps[1].blockFormat.inList
               /\ Len(OpsNamed(sink.ops, {"listAdd"})) = 1
               /\ sink.inList

\* the second item of a list whose first item held a nested list
C12_Witness ==
    /\ After("enterBlock", "LI")
    /\ open = <<Block("UL"), Block("LI")>>
    /\ kids[1] = 2
    /\ sink.blocks = 3
    /\ mdi.m_listStack[1].count = 2
    /\ Len(InsertBlockOps) = 1

\* C13 as stated: while a stream is imported, the character format in effect
\* for new text is the top of the span format stack, or the empty format
\* when the stack is empty.
C13_ActiveFormatIsStackTop_Original ==
    pc = "parsing" => sink.charFormat = SpanTop(mdi)

\* the handler call just made performed the deferred block insertion
DeferredInsertion ==
    /\ last.ev \in {"text", "enterSpan"}
    /\ InsertBlockOps # <<>>

\* C13: the character format in effect is the top of the span format stack
\* (or empty when the stack is empty) right after every span enter and
\* leave, every flush of raw HTML, every heading leave and every deferred
\* block insertion outside a code block; right after a heading's enter it is
\* the heading's format while the stack is empty, and a deferred insertion
\* in a code block adds the monospaced font to the stack's top.
C13_ActiveFormatIsStackTop ==
    /\ last.ev \in {"enterSpan", "leaveSpan"} => sink.charFormat = SpanTop(mdi)
    /\ (After("text", "HTML") /\ InsertHtmlOps # <<>>) =>
          sink.charFormat = SpanTop(mdi)
    /\ After("leaveBlock", "H") =>
          sink.charFormat = SpanTop(mdi) /\ mdi.m_spanFormatStack = <<>>
    /\ (DeferredInsertion /\ ~mdi.m_codeBlock /\ last.kind # "ENTITY") =>
          sink.charFormat = SpanTop(mdi)
    /\ (DeferredInsertion /\ mdi.m_codeBlock /\ last.kind # "ENTITY") =>
          /\ sink.charFormat = WithProp(SpanTop(mdi), "mono")
          /\ sink.charFormat # SpanTop(mdi)
    /\ After("enterBlock", "H") =>
          /\ mdi.m_spanFormatStack = <<>>
          /\ sink.charFormat = HeadingCharFormat(last.det.level)
          /\ sink.charFormat # SpanTop(mdi)

\* the leave of a span nested in another span, in a heading: the format in
\* effect is the outer span's again
C13_Witness ==
    /\ last.ev = "leaveSpan"
    /\ Len(open) = 2
    /\ open[1] = Block("H")
    /\ open[2] \in {Span("STRONG"), Span("A")}
    /\ sink.charFormat = SpanCharFormat(open[2][2])
    /\ sink.charFormat = SpanTop(mdi)

\* C14: while m_htmlTagDepth is nonzero a text event of a kind other than raw
\* HTML (normal, null character, hard break, soft break, code, entity), which
\* leaves the depth as it was, inserts nothing into the sink.
C14_NothingInsertedInsideHtml ==
    (/\ last.ev = "text"
     /\ last.kind \in TextKinds \ {"HTML"}
     /\ mdi.m_htmlTagDepth # 0) => Insertions(sink.ops) = <<>>

\* C15: only the first paragraph of a list item skips the block insertion: a
\* paragraph entered in a list item that already had an earlier paragraph
\* sets m_needsInsertBlock, also when a nested list with its own items was
\* opened and closed inside that item in between.
C15_LaterParagraphsDeferInsertion ==
    (/\ After("enterBlock", "P")
     /\ Len(open) >= 2
     /\ open[Len(open) - 1] = Block("LI")
     /\ kids[Len(open) - 1] >= 2) => mdi.m_needsInsertBlock

\* the columns a merge covers
MergeCols(o) == o.col .. (o.col + o.numCols - 1)

\* C16: every merge issued at a table row's leave is on the table's last
\* row, is anchored at a column c of m_nonEmptyTableCells and covers exactly
\* the columns c..e with 0 <= c < e <= m_tableCol, every column c+1..e being
\* absent from m_nonEmptyTableCells and e the last column of that maximal
\* run; the merges of one row do not overlap; the columns of a leading run
\* of empty cells are in no merge and a row without a populated column has
\* no merge.
C16_MergesAnchoredAndDisjoint ==
    LET ne == mdi.m_nonEmptyTableCells
        cur == mdi.m_tableCol
    IN After("leaveBlock", "TR") =>
        /\ \A i \in 1 .. Len(MergeOps) :
              LET c == MergeOps[i].col
                  e == MergeOps[i].col + MergeOps[i].numCols - 1
              IN /\ MergeOps[i].row = sink.rows - 1
                 /\ MergeOps[i].numRows = 1
                 /\ c \in ne
                 /\ 0 <= c /\ c < e /\ e <= cur
                 /\ \A j \in c + 1 .. e : j \notin ne
                 /\ e = cur \/ e + 1 \in ne
        /\ \A i, j \in 1 .. Len(MergeOps) :
              i # j => MergeCols(MergeOps[i]) \cap MergeCols(MergeOps[j]) = {}
        /\ \A j \in 0 .. cur :
              (\A k \in 0 .. j : k \notin ne) =>
                  \A i \in 1 .. Len(MergeOps) : j \notin MergeCols(MergeOps[i])
        /\ ne = {} => MergeOps = <<>>

\* a row of six cells with text in columns 0 and 3: two merges
C16_Witness ==
    /\ After("leaveBlock", "TR")
    /\ mdi.m_nonEmptyTableCells = {0, 3}
    /\ mdi.m_tableCol = 5
    /\ MergeOps = <<OpMergeCells(1, 3, 1, 3), OpMergeCells(1, 0, 1, 3)>>

\* C17: while at least one image span is open, also after an image span
\* nested in the outer image's alt text has been closed, a text event
\* inserts nothing into the sink and performs no deferred block insertion.
C17_AltTextDiscarded ==
    (/\ last.ev = "text"
     /\ \E i \in 1 .. Len(open) : open[i] = Span("IMG")) => sink.ops = <<>>

Max(a, b) == IF a >= b THEN a ELSE b

\* C18: between a table's enter and its leave m_tableRowCount and
\* m_tableColumnCount never decrease, and both are 0 right after the enter;
\* after every enter of a table row or header cell the sink's table has
\* exactly max(1, m_tableRowCount) rows and max(1, m_tableColumnCount)
\* columns, so while a row is open the row index of the merges,
\* rows() - 1, is the row index of the cell lookups, m_tableRowCount - 1.
C18_TableCountsAndDimensions ==
    [][/\ (OpenBlocks("TABLE") >= 1 /\ OpenBlocks("TABLE")' >= 1) =>
            /\ mdi'.m_tableRowCount >= mdi.m_tableRowCount
            /\ mdi'.m_tableColumnCount >= mdi.m_tableColumnCount
       /\ EnterBlockStep("TABLE") =>
            /\ mdi'.m_tableRowCount = 0
            /\ mdi'.m_tableColumnCount = 0
       /\ (EnterBlockStep("TR") \/ EnterBlockStep("TH")) =>
            /\ sink'.rows = Max(1, mdi'.m_tableRowCount)
            /\ sink'.cols = Max(1, mdi'.m_tableColumnCount)
       /\ OpenBlocks("TR")' >= 1 =>
            sink'.rows - 1 = mdi'.m_tableRowCount - 1
      ]_vars

\* the second row of a table of three columns has been entered
C18_Witness ==
    /\ After("enterBlock", "TR")
    /\ mdi.m_tableRowCount = 2
    /\ mdi.m_tableColumnCount = 3
    /\ sink.rows = 2
    /\ sink.cols = 3

\* C19: a block created by deferred insertion while d >= 1 quotes are open
\* has right margin d times the quote indent unit.
C19_RightMarginScalesWithDepth ==
    (DeferredInsertion /\ mdi.m_blockQuoteDepth >= 1) =>
        \A i \in 1 .. Len(InsertBlockOps) :
            InsertBlockOps[i].blockFormat.rightMargin =
                mdi.m_blockQuoteDepth * BlockQuoteIndent

\* C20: no deferred block insertion is performed while a table is open: an
\* m_needsInsertBlock left set by the leave of a quote or code block before
\* the table does not fire on the text of a header or data cell.
C20_NoDeferredInsertionInTable ==
    (last.ev \in {"text", "enterSpan"} /\ OpenBlocks("TABLE") >= 1) =>
        InsertBlockOps = <<>>

\* C21: when the import of a well-nested stream has ended, m_htmlTagDepth is
\* 0 and m_htmlAccumulator is empty: nothing that was buffered is left
\* uninserted, whatever tags the raw HTML fragments held.
C21_NothingLeftBuffered ==
    (pc = "done" /\ status = 0 /\ open = <<>>) =>
        /\ mdi.m_htmlTagDepth = 0
        /\ mdi.m_htmlAccumulator = <<>>

\* C22: a data cell into which text or an image was inserted during its row
\* is in m_nonEmptyTableCells when the row is left, and no merge issued at
\* the row's leave covers it as a column other than the merge's anchor.
C22_FilledCellsAreRecorded ==
    After("leaveBlock", "TR") =>
        /\ filled \subseteq mdi.m_nonEmptyTableCells
        /\ \A i \in 1 .. Len(MergeOps) :
              \A j \in MergeCols(MergeOps[i]) \ {MergeOps[i].col} : j \notin filled

====
